---- MODULE Spec2Model ----
(***************************************************************************)
(* The HTTrack wrapper of src/main.py: HttrackRunner (one caller thread,   *)
(* the reader threads start() launches and the child processes they        *)
(* spawn) and App._inject_into_html_file (the locker mutator).             *)
(*                                                                         *)
(* Spec     the supervisor: every interleaving of the caller, the reader   *)
(*          threads and the processes.                                     *)
(* FairSpec the supervisor with its threads scheduled fairly.               *)
(* AppSpec  the supervisor driven by the App's Tk thread (_start,           *)
(*          _pump_logs, _check_completion).                                *)
(* MutSpec  the mutator, applied repeatedly to a bounded document.         *)
(* LineSpec the body of the reader's loop, applied to lines of every kind. *)
(***************************************************************************)
EXTENDS Integers, Sequences, FiniteSets, TLC

\* Bounds of the model: jobs started, lines all processes write, events (calls
\* of the caller, output lines, failures of the environment), tokens of a
\* mirrored page, mutations of one file.
MaxJobs == 2
MaxLines == 2
MaxEvents == 4
MaxDocLen == 3
MaxCalls == 3
MaxFed == 2

VARIABLES
    proc,            \* self.proc: 0 is None, j is the Popen object of job j
    njobs,           \* reader threads launched so far (job ids are 1..njobs)
    stop_requested,  \* self._stop_requested
    percentage,      \* self.progress_parser.percentage
    files_downloaded, \* self.progress_parser.files_downloaded
    files_total,     \* self.progress_parser.files_total
    bytes_downloaded, \* self.progress_parser.bytes_downloaded
    current_url,     \* self.progress_parser.current_url
    log_queue,       \* self.log_queue
    progress_queue,  \* self.progress_queue
    rpc,             \* position of each reader thread in _reader_thread
    rsrc,            \* the process whose stdout a reader thread iterates
    nread,           \* lines a reader thread has classified and pushed
    pstate,          \* child process: "none", "alive", "exited"
    pout,            \* lines the process has written to its stdout pipe
    pcursor,         \* lines already consumed from the pipe
    psig,            \* strongest signal sent to the live process
    pcode,           \* exit status of an exited process
    prc,             \* Popen.returncode: <<>> until poll()/wait() saw the exit
    cpc,             \* position of the caller thread
    nterm,           \* history: terminal LogEvents each job has pushed
    outcome,         \* history: what each job's terminal LogEvent reported
    nevents,         \* calls, output lines and failures so far
    stopLive,        \* history: processes running when the current stop() was called
    app,             \* App: the Tk thread's position, the log widget, timers, _finish calls
    html,            \* the text of the file at html_path, as a sequence of tokens
    snippet,         \* the snippet handed to _inject_into_html_file
    changed,         \* what the last _inject_into_html_file call returned
    ncalls           \* _inject_into_html_file calls made on the file

\* The fields of self.progress_parser.
parserVars == <<percentage, files_downloaded, files_total, bytes_downloaded,
                current_url>>

supVars == <<proc, njobs, stop_requested, parserVars, log_queue, progress_queue,
             rpc, rsrc, nread, pstate, pout, pcursor, psig,
             pcode, prc, cpc, nevents, nterm, outcome, stopLive, app>>

mutVars == <<html, snippet, changed, ncalls>>

vars == <<supVars, mutVars>>

Jobs == 1..MaxJobs

\* Optional values: None is the empty tuple.
None == <<>>

\* Output lines of the child process, as sequences of characters.
LineTexts == {<<"h", "i">>, <<"e", "r", "r", "o", "r", " ", "4", "2", "%">>}

\* Python's "x in line": x occurs in line.
Has(line, x) ==
    \E i \in 1..(Len(line) - Len(x) + 1) : SubSeq(line, i, i + Len(x) - 1) = x

UpperCase == <<"A", "B", "C", "D", "E", "F", "G", "H", "I", "J", "K", "L", "M",
               "N", "O", "P", "Q", "R", "S", "T", "U", "V", "W", "X", "Y", "Z">>

LowerCase == <<"a", "b", "c", "d", "e", "f", "g", "h", "i", "j", "k", "l", "m",
               "n", "o", "p", "q", "r", "s", "t", "u", "v", "w", "x", "y", "z">>

LowerChar(c) ==
    IF \E i \in 1..Len(UpperCase) : UpperCase[i] = c
    THEN LowerCase[CHOOSE i \in 1..Len(UpperCase) : UpperCase[i] = c]
    ELSE c

\* str.lower().
Lower(line) == [i \in 1..Len(line) |-> LowerChar(line[i])]

DigitChars == <<"0", "1", "2", "3", "4", "5", "6", "7", "8", "9">>

\* \d
IsDigit(c) == \E i \in 1..Len(DigitChars) : DigitChars[i] = c

DigitVal(c) == (CHOOSE i \in 1..Len(DigitChars) : DigitChars[i] = c) - 1

\* \d+ from position i, greedy: the position after the digits that start at i.
RunEnd(line, i) ==
    CHOOSE e \in i..(Len(line) + 1) :
        /\ \A k \in i..(e - 1) : IsDigit(line[k])
        /\ e = Len(line) + 1 \/ ~IsDigit(line[e])

\* int() of the digits line[i..e-1].
IntOf(line, i, e) ==
    LET v[k \in (i - 1)..(e - 1)] ==
            IF k = i - 1 THEN 0 ELSE v[k - 1] * 10 + DigitVal(line[k])
    IN v[e - 1]

\* re.search: the leftmost of the positions at which a pattern matches, 0 if
\* there is none.
Leftmost(S) ==
    IF S = {} THEN 0 ELSE CHOOSE i \in S : \A k \in S : i <= k

\* line has x at position i.
StartsAt(line, i, x) ==
    /\ i + Len(x) - 1 <= Len(line)
    /\ SubSeq(line, i, i + Len(x) - 1) = x

----------------------------------------------------------------------------
\* A reader that gives a line the level of the first word it knows, in the
\* order debug, warn, error.
ClassifyDebugFirst(line) ==
    IF Has(Lower(line), <<"d", "e", "b", "u", "g">>) THEN "[DEBUG]"
    ELSE IF Has(Lower(line), <<"w", "a", "r", "n">>) THEN "[WARN]"
    ELSE IF \E x \in {<<"e", "r", "r", "o", "r">>,
                      <<"f", "a", "i", "l", "e", "d">>,
                      <<"c", "a", "n", "n", "o", "t">>} : Has(Lower(line), x)
         THEN "[ERROR]"
    ELSE "[INFO]"

\* The level the reader thread gives a line, lines 161-168.
Classify(line) ==
    IF \E x \in {<<"e", "r", "r", "o", "r">>,
                 <<"f", "a", "i", "l", "e", "d">>,
                 <<"c", "a", "n", "n", "o", "t">>} : Has(Lower(line), x)
    THEN "[ERROR]"
    ELSE IF Has(Lower(line), <<"w", "a", "r", "n">>) THEN "[WARN]"
    ELSE IF Has(Lower(line), <<"d", "e", "b", "u", "g">>) THEN "[DEBUG]"
    ELSE "[INFO]"

\* Line 60, re.search(r'(\d+)%', line): <<int(group 1)>>, None if no match.
ParsePercentage(line) ==
    LET i == Leftmost({s \in 1..Len(line) :
                          /\ IsDigit(line[s])
                          /\ StartsAt(line, RunEnd(line, s), <<"%">>)})
    IN IF i = 0 THEN None ELSE <<IntOf(line, i, RunEnd(line, i))>>

\* Line 65, re.search(r'(\d+)/(\d+)', line): <<(group 1, group 2)>>.
ParseFiles(line) ==
    LET i == Leftmost({s \in 1..Len(line) :
                          /\ IsDigit(line[s])
                          /\ StartsAt(line, RunEnd(line, s), <<"/">>)
                          /\ RunEnd(line, s) < Len(line)
                          /\ IsDigit(line[RunEnd(line, s) + 1])})
        e == RunEnd(line, i)
    IN IF i = 0 THEN None
       ELSE <<(<<IntOf(line, i, e), IntOf(line, e + 1, RunEnd(line, e + 1))>>)>>

\* (?:\.\d+)? after the digits that end before e: the position after it.
FractionEnd(line, e) ==
    IF StartsAt(line, e, <<".">>) /\ e < Len(line) /\ IsDigit(line[e + 1])
    THEN RunEnd(line, e + 1)
    ELSE e

\* \s* from position f: the position after the whitespace.
SpaceEnd(line, f) ==
    CHOOSE u \in f..(Len(line) + 1) :
        /\ \A k \in f..(u - 1) : line[k] = " "
        /\ u = Len(line) + 1 \/ line[u] # " "

\* (KB|MB|GB) with re.IGNORECASE at position u.
UnitAt(line, u) ==
    /\ u < Len(line)
    /\ LowerChar(line[u]) \in {"k", "m", "g"}
    /\ LowerChar(line[u + 1]) = "b"

Pow10(n) ==
    LET p[k \in 0..n] == IF k = 0 THEN 1 ELSE 10 * p[k - 1]
    IN p[n]

\* Lines 74-76: the multiplier of a unit.
mult(c) ==
    CASE LowerChar(c) = "k" -> 1024
      [] LowerChar(c) = "m" -> 1024 * 1024
      [] LowerChar(c) = "g" -> 1024 * 1024 * 1024

\* Lines 71-77, re.search(r'(\d+(?:\.\d+)?)\s*(KB|MB|GB)', line, re.IGNORECASE):
\* <<int(float(group 1) * mult[unit])>>.
ParseBytes(line) ==
    LET i == Leftmost({s \in 1..Len(line) :
                          /\ IsDigit(line[s])
                          /\ UnitAt(line, SpaceEnd(line, FractionEnd(line, RunEnd(line, s))))})
        e == RunEnd(line, i)
        f == FractionEnd(line, e)
        u == SpaceEnd(line, f)
        whole == IntOf(line, i, e)
        places == IF f = e THEN 0 ELSE f - e - 1
        fraction == IF f = e THEN 0 ELSE IntOf(line, e + 1, f)
    IN IF i = 0 THEN None
       ELSE <<whole * mult(line[u]) + (fraction * mult(line[u])) \div Pow10(places)>>

\* \S+ from position a, greedy: the position after it.
WordEnd(line, a) ==
    CHOOSE e \in a..(Len(line) + 1) :
        /\ \A k \in a..(e - 1) : line[k] # " "
        /\ e = Len(line) + 1 \/ line[e] = " "

\* https?:// at position i: the position after it, 0 if it is not there.
SchemeEnd(line, i) ==
    IF StartsAt(line, i, <<"h", "t", "t", "p", "s", ":", "/", "/">>) THEN i + 8
    ELSE IF StartsAt(line, i, <<"h", "t", "t", "p", ":", "/", "/">>) THEN i + 7
    ELSE 0

\* Lines 79-80, re.search(r'https?://\S+', line) and 'GET' in line:
\* <<group 0>>.
ParseUrl(line) ==
    LET i == Leftmost({s \in 1..Len(line) :
                          /\ SchemeEnd(line, s) # 0
                          /\ WordEnd(line, SchemeEnd(line, s)) > SchemeEnd(line, s)})
    IN IF i = 0 \/ ~Has(line, <<"G", "E", "T">>) THEN None
       ELSE <<SubSeq(line, i, WordEnd(line, SchemeEnd(line, i)) - 1)>>

\* ProgressParser.parse_line, lines 57-83: what each search derived from the
\* line, None where it derived nothing.
parse_line(line) ==
    [percentage |-> ParsePercentage(line),
     files |-> ParseFiles(line),
     bytes |-> ParseBytes(line),
     current_url |-> ParseUrl(line)]

\* The dict parse_line returns: the derived fields only.
Info(r) ==
    [key \in {key \in DOMAIN r : r[key] # None} |-> r[key][1]]

\* Popen.poll(): reaps an exited child and returns returncode.
PollRc(h) ==
    IF pstate[h] = "exited" THEN <<pcode[h]>> ELSE prc[h]

\* Popen.send_signal(sig): poll() first, signal only a child not yet reaped.
SendSignal(h, sig) ==
    IF pstate[h] = "exited"
    THEN /\ prc' = [prc EXCEPT ![h] = <<pcode[h]>>]
         /\ UNCHANGED psig
    ELSE /\ psig' = [psig EXCEPT ![h] = IF sig = "kill" \/ @ = "kill" THEN "kill" ELSE "term"]
         /\ UNCHANGED prc

LogEvent(j, kind, level, k, msg) ==
    [job |-> j, kind |-> kind, level |-> level, k |-> k, msg |-> msg]

----------------------------------------------------------------------------
\* Calls of the caller, lines of output and failures of the environment are
\* counted together and bounded by MaxEvents.
Event ==
    /\ nevents < MaxEvents
    /\ nevents' = nevents + 1

\* App after __init__: no callback runs, the log widget is empty, _pump_logs is
\* scheduled (line 285), no _check_completion is, _finish has not been called.
AppIdle ==
    [pc |-> "idle", processed |-> FALSE, log_txt |-> <<>>, pumping |-> TRUE,
     timers |-> 0, finished |-> <<>>]

SupInit ==
    /\ proc = 0
    /\ njobs = 0
    /\ stop_requested = FALSE
    /\ percentage = 0
    /\ files_downloaded = 0
    /\ files_total = 0
    /\ bytes_downloaded = 0
    /\ current_url = <<>>
    /\ log_queue = <<>>
    /\ progress_queue = <<>>
    /\ rpc = [j \in Jobs |-> "idle"]
    /\ rsrc = [j \in Jobs |-> 0]
    /\ nread = [j \in Jobs |-> 0]
    /\ pstate = [j \in Jobs |-> "none"]
    /\ pout = [j \in Jobs |-> <<>>]
    /\ pcursor = [j \in Jobs |-> 0]
    /\ psig = [j \in Jobs |-> "none"]
    /\ pcode = [j \in Jobs |-> 0]
    /\ prc = [j \in Jobs |-> None]
    /\ cpc = "idle"
    /\ nterm = [j \in Jobs |-> 0]
    /\ outcome = [j \in Jobs |-> "none"]
    /\ stopLive = {}
    /\ nevents = 0
    /\ app = AppIdle

\* No file is being mutated.
MutIdle ==
    /\ html = <<>>
    /\ snippet = <<>>
    /\ changed = FALSE
    /\ ncalls = 0

Init ==
    SupInit /\ MutIdle

readerVars == <<rpc, rsrc, nread>>
procVars == <<pstate, pout, pcursor, psig, pcode>>
queueVars == <<log_queue, progress_queue>>
histVars == <<nterm, outcome, stopLive>>

----------------------------------------------------------------------------
\* The caller thread; cpc is "idle" between operations.

\* ProgressParser.reset, lines 50-55.
reset ==
    /\ files_downloaded' = 0
    /\ files_total' = 0
    /\ bytes_downloaded' = 0
    /\ current_url' = <<>>
    /\ percentage' = 0

Ready == cpc = "idle"

\* is_running(), first read of self.proc: "self.proc is not None".
IsRunningCall ==
    /\ Ready
    /\ Event
    /\ cpc' = IF proc = 0 THEN "idle" ELSE "is_running_poll"
    /\ UNCHANGED <<proc, njobs, stop_requested, parserVars, queueVars, readerVars,
                   procVars, prc, histVars>>
    /\ UNCHANGED <<mutVars, app>>

\* is_running(), second read of self.proc: "self.proc.poll() is None".
IsRunningPoll ==
    /\ cpc = "is_running_poll"
    /\ IF proc = 0
       THEN UNCHANGED prc
       ELSE prc' = [prc EXCEPT ![proc] = PollRc(proc)]
    /\ cpc' = "idle"
    /\ UNCHANGED <<proc, njobs, stop_requested, parserVars, queueVars, readerVars,
                   procVars, histVars, nevents>>
    /\ UNCHANGED <<mutVars, app>>

\* start(), line 110: is_running(), first read of self.proc.
StartCall ==
    /\ Ready
    /\ njobs < MaxJobs
    /\ Event
    /\ cpc' = IF proc = 0 THEN "start_body" ELSE "start_poll"
    /\ UNCHANGED <<proc, njobs, stop_requested, parserVars, queueVars, readerVars,
                   procVars, prc, histVars>>
    /\ UNCHANGED <<mutVars, app>>

\* start(), lines 110-111: is_running(), second read, and the RuntimeError.
StartPoll ==
    /\ cpc = "start_poll"
    /\ IF proc = 0
       THEN /\ cpc' = "idle"
            /\ UNCHANGED prc
       ELSE /\ prc' = [prc EXCEPT ![proc] = PollRc(proc)]
            /\ cpc' = IF PollRc(proc) = None THEN "idle" ELSE "start_body"
    /\ UNCHANGED <<proc, njobs, stop_requested, parserVars, queueVars, readerVars,
                   procVars, histVars, nevents>>
    /\ UNCHANGED <<mutVars, app>>

\* A start() that leaves the cancellation flag as it finds it.
StartBodyKeepFlag ==
    /\ cpc = "start_body"
    /\ reset
    /\ njobs' = njobs + 1
    /\ rpc' = [rpc EXCEPT ![njobs + 1] = "spawn"]
    /\ cpc' = "idle"
    /\ UNCHANGED <<proc, stop_requested, queueVars, rsrc, nread, procVars, prc,
                   histVars, nevents>>
    /\ UNCHANGED <<mutVars, app>>

\* start(), lines 113-203: reset the parser, clear the flag, launch the thread.
StartBody ==
    /\ cpc = "start_body"
    /\ reset
    /\ stop_requested' = FALSE
    /\ njobs' = njobs + 1
    /\ rpc' = [rpc EXCEPT ![njobs + 1] = "spawn"]
    /\ cpc' = "idle"
    /\ UNCHANGED <<proc, queueVars, rsrc, nread, procVars, prc, histVars, nevents>>
    /\ UNCHANGED <<mutVars, app>>

\* The end of a stop() call.
StopReturn ==
    /\ cpc' = "idle"
    /\ stopLive' = {}

\* stop(), lines 206-207: set the flag, "self.proc and", and the first read of
\* is_running().
StopCall ==
    /\ Ready
    /\ Event
    /\ stop_requested' = TRUE
    /\ IF proc = 0
       THEN /\ cpc' = "idle"
            /\ UNCHANGED stopLive
       ELSE /\ cpc' = "stop_poll"
            /\ stopLive' = {p \in Jobs : pstate[p] = "alive"}
    /\ UNCHANGED <<proc, njobs, parserVars, queueVars, readerVars, procVars, prc,
                   nterm, outcome>>
    /\ UNCHANGED <<mutVars, app>>

\* stop(), line 207: is_running(), second read of self.proc, outside the try.
StopPoll ==
    /\ cpc = "stop_poll"
    /\ IF proc = 0
       THEN /\ StopReturn
            /\ UNCHANGED prc
       ELSE /\ prc' = [prc EXCEPT ![proc] = PollRc(proc)]
            /\ IF PollRc(proc) = None
               THEN /\ cpc' = "stop_terminate"
                    /\ UNCHANGED stopLive
               ELSE StopReturn
    /\ UNCHANGED <<proc, njobs, stop_requested, parserVars, queueVars, readerVars,
                   procVars, nterm, outcome, nevents>>
    /\ UNCHANGED <<mutVars, app>>

\* stop(), line 209: self.proc.terminate(); an AttributeError is swallowed.
StopTerminate ==
    /\ cpc = "stop_terminate"
    /\ IF proc = 0
       THEN /\ StopReturn
            /\ UNCHANGED <<psig, prc>>
       ELSE /\ SendSignal(proc, "term")
            /\ cpc' = "stop_wait"
            /\ UNCHANGED stopLive
    /\ UNCHANGED <<proc, njobs, stop_requested, parserVars, queueVars, readerVars,
                   pstate, pout, pcursor, pcode, nterm, outcome, nevents>>
    /\ UNCHANGED <<mutVars, app>>

\* stop(), lines 211-212: self.proc.wait(timeout=3) returns on the exit of the
\* process or raises TimeoutExpired; an AttributeError is swallowed.
StopWait ==
    /\ cpc = "stop_wait"
    /\ IF proc = 0
       THEN /\ StopReturn
            /\ UNCHANGED prc
       ELSE IF pstate[proc] = "exited"
            THEN /\ prc' = [prc EXCEPT ![proc] = <<pcode[proc]>>]
                 /\ StopReturn
            ELSE /\ cpc' = "stop_kill"
                 /\ UNCHANGED <<prc, stopLive>>
    /\ UNCHANGED <<proc, njobs, stop_requested, parserVars, queueVars, readerVars,
                   procVars, nterm, outcome, nevents>>
    /\ UNCHANGED <<mutVars, app>>

\* stop(), line 213: self.proc.kill() after TimeoutExpired.
StopKill ==
    /\ cpc = "stop_kill"
    /\ IF proc = 0
       THEN UNCHANGED <<psig, prc>>
       ELSE SendSignal(proc, "kill")
    /\ StopReturn
    /\ UNCHANGED <<proc, njobs, stop_requested, parserVars, queueVars, readerVars,
                   pstate, pout, pcursor, pcode, nterm, outcome, nevents>>
    /\ UNCHANGED <<mutVars, app>>

\* poll_log_line(), lines 217-221: the value returned.
PollLogLineValue ==
    IF log_queue = <<>> THEN None ELSE <<Head(log_queue)>>

\* poll_log_line(), lines 217-221.
PollLogLine ==
    /\ Ready
    /\ Event
    /\ log_queue' = IF log_queue = <<>> THEN log_queue ELSE Tail(log_queue)
    /\ cpc' = "idle"
    /\ UNCHANGED <<proc, njobs, stop_requested, parserVars, progress_queue,
                   readerVars, procVars, prc, histVars>>
    /\ UNCHANGED <<mutVars, app>>

\* poll_progress(), lines 223-227: the value returned.
PollProgressValue ==
    IF progress_queue = <<>> THEN None ELSE <<Head(progress_queue)>>

\* poll_progress(), lines 223-227.
PollProgress ==
    /\ Ready
    /\ Event
    /\ progress_queue' = IF progress_queue = <<>> THEN progress_queue
                         ELSE Tail(progress_queue)
    /\ cpc' = "idle"
    /\ UNCHANGED <<proc, njobs, stop_requested, parserVars, log_queue,
                   readerVars, procVars, prc, histVars>>
    /\ UNCHANGED <<mutVars, app>>

----------------------------------------------------------------------------
\* The reader thread of job j (_reader_thread, lines 124-199).

\* A queue that hands out the newest event first.
PutFront(e) ==
    log_queue' = <<e>> \o log_queue

\* queue.Queue.put: the event goes to the tail of self.log_queue.
Put(e) ==
    log_queue' = Append(log_queue, e)

\* A failure of the environment (no executable, log file error, undecodable
\* output).
Fault == Event

readerFrame == <<njobs, stop_requested, cpc, stopLive>>

\* Lines 126-135 and 138-139: Popen() gives the process and self.proc is set,
\* or it raises and the ERROR event is pushed.
Spawn(j) ==
    /\ rpc[j] = "spawn"
    /\ \/ /\ pstate' = [pstate EXCEPT ![j] = "alive"]
          /\ proc' = j
          /\ rpc' = [rpc EXCEPT ![j] = "cmd"]
          /\ UNCHANGED <<log_queue, nterm, outcome, nevents>>
       \/ /\ Fault
          /\ Put(LogEvent(j, "spawn_error", "[ERROR]", 0, None))
          /\ nterm' = [nterm EXCEPT ![j] = @ + 1]
          /\ outcome' = [outcome EXCEPT ![j] = "spawn_error"]
          /\ rpc' = [rpc EXCEPT ![j] = "spawn_failed"]
          /\ UNCHANGED <<pstate, proc>>
    /\ UNCHANGED <<readerFrame, parserVars, progress_queue, rsrc, nread, pout,
                   pcursor, psig, pcode, prc>>
    /\ UNCHANGED <<mutVars, app>>

\* An except clause that returns and leaves self.proc as it finds it.
SpawnFailedReturn(j) ==
    /\ rpc[j] = "spawn_failed"
    /\ rpc' = [rpc EXCEPT ![j] = "done"]
    /\ UNCHANGED <<readerFrame, proc, parserVars, queueVars, rsrc, nread, procVars,
                   prc, nterm, outcome, nevents>>
    /\ UNCHANGED <<mutVars, app>>

\* Lines 136-137 and 140-141: self.proc = None; return.
SpawnFailedClear(j) ==
    /\ rpc[j] = "spawn_failed"
    /\ proc' = 0
    /\ rpc' = [rpc EXCEPT ![j] = "done"]
    /\ UNCHANGED <<readerFrame, parserVars, queueVars, rsrc, nread, procVars, prc,
                   nterm, outcome, nevents>>
    /\ UNCHANGED <<mutVars, app>>

\* Lines 143-144: the "Running command" event.
RunningCommand(j) ==
    /\ rpc[j] = "cmd"
    /\ Put(LogEvent(j, "command", "[INFO]", 0, None))
    /\ rpc' = [rpc EXCEPT ![j] = "open"]
    /\ UNCHANGED <<readerFrame, proc, parserVars, progress_queue, rsrc, nread,
                   procVars, prc, nterm, outcome, nevents>>
    /\ UNCHANGED <<mutVars, app>>

\* Lines 146-157 and 180-181: mkdir (errors swallowed), the assert on
\* self.proc.stdout, the log file's open and header, and the iterator over
\* self.proc.stdout. A missing handle or a log file error leaves the try:
\* the except clause pushes its ERROR event.
OpenLog(j) ==
    /\ rpc[j] = "open"
    /\ \/ /\ proc # 0
          /\ rsrc' = [rsrc EXCEPT ![j] = proc]
          /\ rpc' = [rpc EXCEPT ![j] = "loop"]
          /\ UNCHANGED <<log_queue, nevents>>
       \/ /\ proc = 0
          /\ Put(LogEvent(j, "stream_error", "[ERROR]", 0, None))
          /\ rpc' = [rpc EXCEPT ![j] = "finally"]
          /\ UNCHANGED <<rsrc, nevents>>
       \/ /\ Fault
          /\ Put(LogEvent(j, "stream_error", "[ERROR]", 0, None))
          /\ rpc' = [rpc EXCEPT ![j] = "finally"]
          /\ UNCHANGED rsrc
    /\ UNCHANGED <<readerFrame, proc, parserVars, progress_queue, nread, procVars,
                   prc, nterm, outcome>>
    /\ UNCHANGED <<mutVars, app>>

\* A loop body whose parser forgets, on every line, the fields the line does
\* not give.
HandleLineForgetful(j, line) ==
    /\ Put(LogEvent(j, "line", Classify(line), nread[j] + 1, line))
    /\ nread' = [nread EXCEPT ![j] = @ + 1]
    /\ \E r \in {parse_line(line)} :
           /\ percentage' = IF r.percentage # None THEN r.percentage[1] ELSE 0
           /\ files_downloaded' = IF r.files # None THEN r.files[1][1] ELSE 0
           /\ files_total' = IF r.files # None THEN r.files[1][2] ELSE 0
           /\ current_url' = IF r.current_url # None THEN r.current_url[1] ELSE <<>>
           /\ UNCHANGED bytes_downloaded
           /\ progress_queue' =
                  IF DOMAIN Info(r) # {}
                  THEN Append(progress_queue,
                              [job |-> j, k |-> nread[j] + 1, info |-> Info(r)])
                  ELSE progress_queue

\* Lines 160-174: the line is classified and pushed to the log stream, parsed,
\* and what was derived from it is pushed to the progress stream. The fields
\* of the parser take the values derived; bytes_downloaded is never assigned.
HandleLine(j, line) ==
    /\ Put(LogEvent(j, "line", Classify(line), nread[j] + 1, line))
    /\ nread' = [nread EXCEPT ![j] = @ + 1]
    /\ \E r \in {parse_line(line)} :
           /\ percentage' = IF r.percentage # None THEN r.percentage[1] ELSE percentage
           /\ files_downloaded' = IF r.files # None THEN r.files[1][1] ELSE files_downloaded
           /\ files_total' = IF r.files # None THEN r.files[1][2] ELSE files_total
           /\ current_url' = IF r.current_url # None THEN r.current_url[1] ELSE current_url
           /\ UNCHANGED bytes_downloaded
           /\ progress_queue' =
                  IF DOMAIN Info(r) # {}
                  THEN Append(progress_queue,
                              [job |-> j, k |-> nread[j] + 1, info |-> Info(r)])
                  ELSE progress_queue

\* A loop without the test of lines 158-159.
ReadLineIgnoreFlag(j) ==
    /\ rpc[j] = "loop"
    /\ pcursor[rsrc[j]] < Len(pout[rsrc[j]])
    /\ pcursor' = [pcursor EXCEPT ![rsrc[j]] = @ + 1]
    /\ HandleLine(j, pout[rsrc[j]][pcursor[rsrc[j]] + 1])
    /\ UNCHANGED rpc
    /\ UNCHANGED <<readerFrame, proc, rsrc, pstate, pout, psig, pcode, prc,
                   nterm, outcome, nevents>>
    /\ UNCHANGED <<mutVars, app>>

\* Lines 157-179: one line of the loop. The line is read, the flag is checked,
\* the line is handled; the write to the log file cannot fail the loop.
ReadLine(j) ==
    /\ rpc[j] = "loop"
    /\ pcursor[rsrc[j]] < Len(pout[rsrc[j]])
    /\ pcursor' = [pcursor EXCEPT ![rsrc[j]] = @ + 1]
    /\ IF stop_requested
       THEN /\ rpc' = [rpc EXCEPT ![j] = "finally"]
            /\ UNCHANGED <<queueVars, parserVars, nread>>
       ELSE /\ HandleLine(j, pout[rsrc[j]][pcursor[rsrc[j]] + 1])
            /\ UNCHANGED rpc
    /\ UNCHANGED <<readerFrame, proc, rsrc, pstate, pout, psig, pcode, prc,
                   nterm, outcome, nevents>>
    /\ UNCHANGED <<mutVars, app>>

\* Line 157: the iterator ends when the pipe is drained and closed.
EndOfStream(j) ==
    /\ rpc[j] = "loop"
    /\ pcursor[rsrc[j]] = Len(pout[rsrc[j]])
    /\ pstate[rsrc[j]] = "exited"
    /\ rpc' = [rpc EXCEPT ![j] = "finally"]
    /\ UNCHANGED <<readerFrame, proc, parserVars, queueVars, rsrc, nread, procVars,
                   prc, nterm, outcome, nevents>>
    /\ UNCHANGED <<mutVars, app>>

\* Lines 157 and 180-181: a line that cannot be read (decoded) leaves the try:
\* the except clause pushes its ERROR event.
ReadError(j) ==
    /\ rpc[j] = "loop"
    /\ pcursor[rsrc[j]] < Len(pout[rsrc[j]])
    /\ Fault
    /\ pcursor' = [pcursor EXCEPT ![rsrc[j]] = @ + 1]
    /\ Put(LogEvent(j, "stream_error", "[ERROR]", 0, None))
    /\ rpc' = [rpc EXCEPT ![j] = "finally"]
    /\ UNCHANGED <<readerFrame, proc, parserVars, progress_queue, rsrc, nread,
                   pstate, pout, psig, pcode, prc, nterm, outcome>>
    /\ UNCHANGED <<mutVars, app>>

\* Line 183, first read of self.proc: "if self.proc and".
FinallyCheck(j) ==
    /\ rpc[j] = "finally"
    /\ rpc' = [rpc EXCEPT ![j] = IF proc = 0 THEN "rc" ELSE "finally_poll"]
    /\ UNCHANGED <<readerFrame, proc, parserVars, queueVars, rsrc, nread, procVars,
                   prc, nterm, outcome, nevents>>
    /\ UNCHANGED <<mutVars, app>>

\* Line 183, second read: "self.proc.poll() is None".
FinallyPoll(j) ==
    /\ rpc[j] = "finally_poll"
    /\ IF proc = 0
       THEN /\ rpc' = [rpc EXCEPT ![j] = "raised"]
            /\ UNCHANGED prc
       ELSE /\ prc' = [prc EXCEPT ![proc] = PollRc(proc)]
            /\ rpc' = [rpc EXCEPT ![j] = IF PollRc(proc) = None THEN "wait" ELSE "rc"]
    /\ UNCHANGED <<readerFrame, proc, parserVars, queueVars, rsrc, nread, procVars,
                   nterm, outcome, nevents>>
    /\ UNCHANGED <<mutVars, app>>

\* Lines 185-186: self.proc.wait(timeout=10) returns on the exit or times out.
FinallyWait(j) ==
    /\ rpc[j] = "wait"
    /\ IF proc = 0
       THEN /\ rpc' = [rpc EXCEPT ![j] = "raised"]
            /\ UNCHANGED prc
       ELSE IF pstate[proc] = "exited"
            THEN /\ prc' = [prc EXCEPT ![proc] = <<pcode[proc]>>]
                 /\ rpc' = [rpc EXCEPT ![j] = "rc"]
            ELSE /\ rpc' = [rpc EXCEPT ![j] = "kill"]
                 /\ UNCHANGED prc
    /\ UNCHANGED <<readerFrame, proc, parserVars, queueVars, rsrc, nread, procVars,
                   nterm, outcome, nevents>>
    /\ UNCHANGED <<mutVars, app>>

\* Lines 187-190: self.proc.kill(), any error swallowed.
FinallyKill(j) ==
    /\ rpc[j] = "kill"
    /\ IF proc = 0
       THEN UNCHANGED <<psig, prc>>
       ELSE SendSignal(proc, "kill")
    /\ rpc' = [rpc EXCEPT ![j] = "rc"]
    /\ UNCHANGED <<readerFrame, proc, parserVars, queueVars, rsrc, nread, pstate,
                   pout, pcursor, pcode, nterm, outcome, nevents>>
    /\ UNCHANGED <<mutVars, app>>

\* Lines 193-198: which terminal event a return code gives.
TerminalKind(rc) ==
    IF rc = <<0>> THEN "success"
    ELSE IF rc = None THEN "stopped"
    ELSE "failed"

TerminalLevel(rc) ==
    IF rc = <<0>> \/ rc = None THEN "[INFO]" ELSE "[ERROR]"

\* Lines 193-198: the terminal event for return code rc.
TerminalPut(j, rc) ==
    /\ Put(LogEvent(j, TerminalKind(rc), TerminalLevel(rc), 0, rc))
    /\ nterm' = [nterm EXCEPT ![j] = @ + 1]
    /\ outcome' = [outcome EXCEPT ![j] = TerminalKind(rc)]
    /\ rpc' = [rpc EXCEPT ![j] = "clear"]

\* Line 192, first read of self.proc: "if self.proc else None"; with no handle
\* rc is None and lines 193-198 push the terminal event.
ReturnCodeCheck(j) ==
    /\ rpc[j] = "rc"
    /\ IF proc = 0
       THEN TerminalPut(j, None)
       ELSE /\ rpc' = [rpc EXCEPT ![j] = "rc_read"]
            /\ UNCHANGED <<log_queue, nterm, outcome>>
    /\ UNCHANGED <<readerFrame, proc, parserVars, progress_queue, rsrc, nread,
                   procVars, prc, nevents>>
    /\ UNCHANGED <<mutVars, app>>

\* Line 192, second read: "self.proc.returncode", and lines 193-198.
ReturnCodeRead(j) ==
    /\ rpc[j] = "rc_read"
    /\ IF proc = 0
       THEN /\ rpc' = [rpc EXCEPT ![j] = "raised"]
            /\ UNCHANGED <<log_queue, nterm, outcome>>
       ELSE TerminalPut(j, prc[proc])
    /\ UNCHANGED <<readerFrame, proc, parserVars, progress_queue, rsrc, nread,
                   procVars, prc, nevents>>
    /\ UNCHANGED <<mutVars, app>>

\* Line 199: self.proc = None.
ClearHandle(j) ==
    /\ rpc[j] = "clear"
    /\ proc' = 0
    /\ rpc' = [rpc EXCEPT ![j] = "done"]
    /\ UNCHANGED <<readerFrame, parserVars, queueVars, rsrc, nread, procVars, prc,
                   nterm, outcome, nevents>>
    /\ UNCHANGED <<mutVars, app>>

----------------------------------------------------------------------------
\* The child process of job j (the program subprocess.Popen runs).

\* Exit statuses a process can end with: by itself (0 or 1), on SIGTERM
\* (-15), on SIGKILL (-9).
ExitCodes(sig) ==
    IF sig = "kill" THEN {-9}
    ELSE IF sig = "term" THEN {-15}
    ELSE {0, 1}

RECURSIVE SumLen(_, _)
SumLen(f, S) ==
    IF S = {} THEN 0
    ELSE LET x == CHOOSE y \in S : TRUE IN Len(f[x]) + SumLen(f, S \ {x})

\* Lines all processes have written.
LinesWritten == SumLen(pout, Jobs)

\* The process writes a line to its stdout pipe; a process sent SIGKILL writes
\* no more.
WriteLine(p) ==
    /\ pstate[p] = "alive"
    /\ psig[p] # "kill"
    /\ LinesWritten < MaxLines
    /\ Event
    /\ \E line \in LineTexts : pout' = [pout EXCEPT ![p] = Append(@, line)]
    /\ UNCHANGED <<proc, njobs, stop_requested, parserVars, queueVars, readerVars,
                   pstate, pcursor, psig, pcode, prc, cpc, histVars>>
    /\ UNCHANGED <<mutVars, app>>

\* The process ends, by itself or on the signal sent to it, and its pipe
\* closes. A process that was sent SIGTERM may keep running.
Exit(p) ==
    /\ pstate[p] = "alive"
    /\ pstate' = [pstate EXCEPT ![p] = "exited"]
    /\ \E c \in ExitCodes(psig[p]) : pcode' = [pcode EXCEPT ![p] = c]
    /\ UNCHANGED <<proc, njobs, stop_requested, parserVars, queueVars, readerVars,
                   pout, pcursor, psig, prc, cpc, nevents, histVars>>
    /\ UNCHANGED <<mutVars, app>>

----------------------------------------------------------------------------
Caller ==
    \/ IsRunningCall \/ IsRunningPoll
    \/ StartCall \/ StartPoll \/ StartBody
    \/ StopCall \/ StopPoll \/ StopTerminate \/ StopWait \/ StopKill
    \/ PollLogLine \/ PollProgress

Reader(j) ==
    \/ Spawn(j) \/ SpawnFailedClear(j)
    \/ RunningCommand(j) \/ OpenLog(j)
    \/ ReadLine(j) \/ EndOfStream(j) \/ ReadError(j)
    \/ FinallyCheck(j) \/ FinallyPoll(j) \/ FinallyWait(j) \/ FinallyKill(j)
    \/ ReturnCodeCheck(j) \/ ReturnCodeRead(j) \/ ClearHandle(j)

Process(p) ==
    WriteLine(p) \/ Exit(p)

Next ==
    \/ Caller
    \/ \E j \in Jobs : Reader(j)
    \/ \E p \in Jobs : Process(p)

Spec == Init /\ [][Next]_vars

\* The steps that end a call the caller has begun.
CallerStep ==
    \/ IsRunningPoll
    \/ StartPoll \/ StartBody
    \/ StopPoll \/ StopTerminate \/ StopWait \/ StopKill

\* The end of a process that was sent SIGKILL.
Killed(p) ==
    psig[p] = "kill" /\ Exit(p)

\* The threads are scheduled: a call the caller has begun goes on, a reader
\* thread that can take a step takes one, a process sent SIGKILL ends. A process
\* is not bound to write or to end by itself, and the caller is not bound to
\* make a call.
Fairness ==
    /\ WF_vars(CallerStep)
    /\ \A j \in Jobs : WF_vars(Reader(j))
    /\ \A p \in Jobs : WF_vars(Killed(p))

FairSpec == Spec /\ Fairness

----------------------------------------------------------------------------
\* App: the Tk thread. Its callbacks run one at a time; app.pc is "idle"
\* between callbacks. The log level filter is "ALL" and the auto-inject option
\* is off.

\* The lines of the log widget _check_completion looks at, line 1082.
LogWindow == 20

appFrame == <<proc, njobs, stop_requested, parserVars, progress_queue, readerVars,
              procVars, cpc, histVars>>

\* An entry the App writes to the log widget by itself.
AppEntry(kind, level) == LogEvent(0, kind, level, 0, None)

\* _append_log, lines 1003-1018: the entry goes to the end of the widget.
append_log(e) == Append(app.log_txt, e)

\* The lowered text of an entry holds "finished successfully": the terminal
\* event of a success, or a line of output with these words.
SaysFinished(e) ==
    \/ e.kind = "success"
    \/ /\ e.kind = "line"
       /\ Has(Lower(e.msg), <<"f", "i", "n", "i", "s", "h", "e", "d", " ", "s", "u",
                              "c", "c", "e", "s", "s", "f", "u", "l", "l", "y">>)

\* The lowered text of an entry holds "stopped".
SaysStopped(e) ==
    \/ e.kind = "stopped"
    \/ /\ e.kind = "line"
       /\ Has(Lower(e.msg), <<"s", "t", "o", "p", "p", "e", "d">>)

\* The lowered text of an entry holds "error", "failed" or "exited with code":
\* the level [ERROR] is part of the text.
SaysError(e) ==
    \/ e.level = "[ERROR]"
    \/ e.kind \in {"failed", "spawn_error", "stream_error"}
    \/ /\ e.kind = "line"
       /\ \E x \in {<<"e", "r", "r", "o", "r">>,
                    <<"f", "a", "i", "l", "e", "d">>,
                    <<"e", "x", "i", "t", "e", "d", " ", "w", "i", "t", "h", " ",
                      "c", "o", "d", "e">>} : Has(Lower(e.msg), x)

\* Lines 1082-1090: the state _check_completion gives _finish, from the last
\* lines of the widget.
run_state(log_txt) ==
    LET first == IF Len(log_txt) > LogWindow THEN Len(log_txt) - LogWindow + 1 ELSE 1
        window == {log_txt[i] : i \in first..Len(log_txt)}
    IN IF \E e \in window : SaysFinished(e) THEN "success"
       ELSE IF \E e \in window : SaysStopped(e) THEN "stopped"
       ELSE IF \E e \in window : SaysError(e) THEN "error"
       ELSE "success"

\* _finish(run_state), lines 931-960, called by _check_completion or _start.
finish(state, by) ==
    Append(app.finished, [run_state |-> state, by |-> by, job |-> njobs])

\* _pump_logs, lines 1042-1048: the loop of poll_log_line() calls, taken at
\* its last call, the one that finds the queue empty: every event put before
\* it has been appended to the widget, in the order of the queue.
PumpLogs ==
    /\ app.pc = "idle"
    /\ app.pumping
    /\ Event
    /\ app' = [app EXCEPT !.pc = "pump_running", !.processed = (log_queue # <<>>),
                          !.log_txt = app.log_txt \o log_queue]
    /\ log_queue' = <<>>
    /\ UNCHANGED <<appFrame, prc>>
    /\ UNCHANGED mutVars

\* _pump_logs, line 1049: is_running(), first read of self.proc.
PumpRunning ==
    /\ app.pc = "pump_running"
    /\ app' = [app EXCEPT !.pc = IF proc = 0 THEN "pump_done" ELSE "pump_running_poll"]
    /\ UNCHANGED <<appFrame, log_queue, prc, nevents>>
    /\ UNCHANGED mutVars

\* _pump_logs, line 1049: is_running(), second read. On a cleared handle the
\* AttributeError ends the callback before line 1054 schedules the next one.
PumpRunningPoll ==
    /\ app.pc = "pump_running_poll"
    /\ IF proc = 0
       THEN /\ app' = [app EXCEPT !.pc = "idle", !.pumping = FALSE]
            /\ UNCHANGED prc
       ELSE /\ prc' = [prc EXCEPT ![proc] = PollRc(proc)]
            /\ app' = [app EXCEPT !.pc = "pump_done"]
    /\ UNCHANGED <<appFrame, log_queue, nevents>>
    /\ UNCHANGED mutVars

\* _pump_logs, lines 1052-1054: is_running(), first read; with no handle and
\* an event processed _check_completion is scheduled.
PumpDone ==
    /\ app.pc = "pump_done"
    /\ app' = IF proc = 0
              THEN [app EXCEPT !.pc = "idle",
                               !.timers = IF app.processed THEN @ + 1 ELSE @]
              ELSE [app EXCEPT !.pc = "pump_done_poll"]
    /\ UNCHANGED <<appFrame, log_queue, prc, nevents>>
    /\ UNCHANGED mutVars

\* _pump_logs, lines 1052-1054: is_running(), second read.
PumpDonePoll ==
    /\ app.pc = "pump_done_poll"
    /\ IF proc = 0
       THEN /\ app' = [app EXCEPT !.pc = "idle", !.pumping = FALSE]
            /\ UNCHANGED prc
       ELSE /\ prc' = [prc EXCEPT ![proc] = PollRc(proc)]
            /\ app' = [app EXCEPT !.pc = "idle",
                                  !.timers = IF PollRc(proc) # None /\ app.processed
                                             THEN @ + 1 ELSE @]
    /\ UNCHANGED <<appFrame, log_queue, nevents>>
    /\ UNCHANGED mutVars

\* _check_completion, lines 1080-1090: a scheduled call begins; is_running(),
\* first read; with no handle _finish is called.
CheckCompletion ==
    /\ app.pc = "idle"
    /\ app.timers > 0
    /\ app' = IF proc = 0
              THEN [app EXCEPT !.timers = @ - 1,
                               !.finished = finish(run_state(app.log_txt), "check")]
              ELSE [app EXCEPT !.timers = @ - 1, !.pc = "check_poll"]
    /\ UNCHANGED <<appFrame, log_queue, prc, nevents>>
    /\ UNCHANGED mutVars

\* _check_completion, is_running(), second read: return when the process
\* runs, _finish when it has exited.
CheckCompletionPoll ==
    /\ app.pc = "check_poll"
    /\ IF proc = 0
       THEN /\ app' = [app EXCEPT !.pc = "idle"]
            /\ UNCHANGED prc
       ELSE /\ prc' = [prc EXCEPT ![proc] = PollRc(proc)]
            /\ app' = IF PollRc(proc) = None
                      THEN [app EXCEPT !.pc = "idle"]
                      ELSE [app EXCEPT !.pc = "idle",
                                       !.finished = finish(run_state(app.log_txt), "check")]
    /\ UNCHANGED <<appFrame, log_queue, nevents>>
    /\ UNCHANGED mutVars

\* _start, line 870: is_running(), first read of self.proc.
AppStart ==
    /\ app.pc = "idle"
    /\ njobs < MaxJobs
    /\ Event
    /\ app' = [app EXCEPT !.pc = IF proc = 0 THEN "start_append" ELSE "start_poll"]
    /\ UNCHANGED <<appFrame, log_queue, prc>>
    /\ UNCHANGED mutVars

\* _start, lines 870-872: is_running(), second read; the warning and return
\* when the process runs.
AppStartPoll ==
    /\ app.pc = "start_poll"
    /\ IF proc = 0
       THEN /\ app' = [app EXCEPT !.pc = "idle"]
            /\ UNCHANGED prc
       ELSE /\ prc' = [prc EXCEPT ![proc] = PollRc(proc)]
            /\ app' = [app EXCEPT !.pc = IF PollRc(proc) = None THEN "idle"
                                         ELSE "start_append"]
    /\ UNCHANGED <<appFrame, log_queue, nevents>>
    /\ UNCHANGED mutVars

\* _start, lines 874-889 and HttrackRunner.start, line 110: the entries of the
\* new job in the widget, then is_running(), first read.
AppStartAppend ==
    /\ app.pc = "start_append"
    /\ app' = [app EXCEPT !.log_txt = append_log(AppEntry("starting", "[INFO]")),
                          !.pc = IF proc = 0 THEN "start_body" ELSE "start_run_poll"]
    /\ UNCHANGED <<appFrame, log_queue, prc, nevents>>
    /\ UNCHANGED mutVars

\* HttrackRunner.start, lines 110-111, and _start, lines 890-892:
\* is_running(), second read; the RuntimeError is logged and _finish("error")
\* called.
AppStartRunPoll ==
    /\ app.pc = "start_run_poll"
    /\ IF proc = 0
       THEN /\ app' = [app EXCEPT !.pc = "idle",
                                  !.log_txt = append_log(AppEntry("start_failed", "[ERROR]")),
                                  !.finished = finish("error", "start")]
            /\ UNCHANGED prc
       ELSE /\ prc' = [prc EXCEPT ![proc] = PollRc(proc)]
            /\ app' = IF PollRc(proc) = None
                      THEN [app EXCEPT !.pc = "idle",
                                       !.log_txt = append_log(AppEntry("start_failed", "[ERROR]")),
                                       !.finished = finish("error", "start")]
                      ELSE [app EXCEPT !.pc = "start_body"]
    /\ UNCHANGED <<appFrame, log_queue, nevents>>
    /\ UNCHANGED mutVars

\* HttrackRunner.start, lines 113-203, called by _start.
AppStartBody ==
    /\ app.pc = "start_body"
    /\ reset
    /\ stop_requested' = FALSE
    /\ njobs' = njobs + 1
    /\ rpc' = [rpc EXCEPT ![njobs + 1] = "spawn"]
    /\ app' = [app EXCEPT !.pc = "idle"]
    /\ UNCHANGED <<proc, queueVars, rsrc, nread, procVars, prc, cpc, histVars, nevents>>
    /\ UNCHANGED mutVars

TkThread ==
    \/ PumpLogs \/ PumpRunning \/ PumpRunningPoll \/ PumpDone \/ PumpDonePoll
    \/ CheckCompletion \/ CheckCompletionPoll
    \/ AppStart \/ AppStartPoll \/ AppStartAppend \/ AppStartRunPoll \/ AppStartBody

AppNext ==
    \/ TkThread
    \/ \E j \in Jobs : Reader(j)
    \/ \E p \in Jobs : Process(p)

AppSpec == Init /\ [][AppNext]_vars

----------------------------------------------------------------------------
\* The locker mutator (App._remove_existing_lockers, App._inject_into_html_file).
\*
\* A text is a sequence of tokens; each token stands for one string:
\*   "WS"   a newline                  "SO"   <script>
\*   "SL"   <script src="https://d.cloudfront.net/c.js">
\*   "SC"   </script>                  "BC"   </body>
\*   "LB"   {      "RB"   }            "SEMI" ;
\*   "IT"   (it:1)                     "KEY"  (key:"k")
\*   "CF"   (cloudfront.net/b.js)      "T"    (x)
\*   "QF"   "it":123,"key":"abc"       "SPEC" "it":4383508,"key":"9bac3"
\* The regular expressions of the source are modelled by what they match on
\* these strings: the operators below and the functions of src/main.py
\* return the same text and the same flag for every text of up to 4 tokens
\* with each of the Snippets.

Tokens ==
    {"WS", "SO", "SL", "SC", "BC", "LB", "RB", "SEMI", "IT", "KEY", "CF", "T",
     "QF", "SPEC"}

HasToken(text, tok) ==
    \E i \in 1..Len(text) : text[i] = tok

\* The position after the whitespace (\s*) that starts at position i.
RECURSIVE SkipWs(_, _)
SkipWs(text, i) ==
    IF i <= Len(text) /\ text[i] = "WS" THEN SkipWs(text, i + 1) ELSE i

\* The first position from i on that holds tok, 0 if there is none.
RECURSIVE Find(_, _, _)
Find(text, tok, i) ==
    IF i > Len(text) THEN 0
    ELSE IF text[i] = tok THEN i
    ELSE Find(text, tok, i + 1)

\* text[i..j-1]
Slice(text, i, j) ==
    SubSeq(text, i, j - 1)

\* Lines 524-527, loader_pattern matched at position i: whitespace, the
\* loader's opening tag, whitespace, </script>, whitespace. The value is the
\* position after the match, 0 without a match.
loader_pattern(text, i) ==
    LET j == SkipWs(text, i)
    IN IF j <= Len(text) /\ text[j] = "SL"
       THEN LET k == SkipWs(text, j + 1)
            IN IF k <= Len(text) /\ text[k] = "SC" THEN SkipWs(text, k + 1) ELSE 0
       ELSE 0

\* Line 534, script_tag matched at position i: whitespace, an opening script
\* tag, the content up to the first </script>, whitespace. open is the
\* position of the opening tag, close that of </script>, end the position
\* after the match; end is 0 without a match.
script_tag(text, i) ==
    LET j == SkipWs(text, i)
        k == IF j <= Len(text) /\ text[j] \in {"SO", "SL"}
             THEN Find(text, "SC", j + 1)
             ELSE 0
    IN IF k # 0
       THEN [open |-> j, close |-> k, end |-> SkipWs(text, k + 1)]
       ELSE [open |-> 0, close |-> 0, end |-> 0]

\* Lines 538-540: the three searches in the content of a script element.
has_it(content) ==
    HasToken(content, "IT")

has_key(content) ==
    HasToken(content, "KEY")

has_loader_ref(content) ==
    HasToken(content, "CF") \/ HasToken(content, "SL")

\* Lines 535-544, strip_if_locker: the replacement of the script element
\* that the match m found at position i.
strip_if_locker(text, i, m) ==
    LET content == Slice(text, m.open + 1, m.close)
    IN IF (has_it(content) /\ has_key(content)) \/ has_loader_ref(content)
       THEN <<>>
       ELSE Slice(text, i, m.end)

\* Lines 552-555, object_literal matched at position i: {, whitespace, a
\* stretch without } that holds both fields, }, whitespace, an optional
\* semicolon.
object_literal(text, i) ==
    LET k == IF text[i] = "LB" THEN Find(text, "RB", i + 1) ELSE 0
        inner == Slice(text, i + 1, k)
        e == SkipWs(text, k + 1)
    IN IF k # 0 /\ has_it(inner) /\ has_key(inner)
       THEN IF e <= Len(text) /\ text[e] = "SEMI" THEN e + 1 ELSE e
       ELSE 0

\* Lines 563-566, specific_obj matched at position i.
specific_obj(text, i) ==
    IF text[i] = "LB"
    THEN LET j == SkipWs(text, i + 1)
         IN IF j <= Len(text) /\ text[j] = "SPEC"
            THEN LET k == SkipWs(text, j + 1)
                 IN IF k <= Len(text) /\ text[k] = "RB" THEN k + 1 ELSE 0
            ELSE 0
    ELSE 0

\* The match of one of the three patterns that are replaced by "".
PatternAt(pat, text, i) ==
    CASE pat = "loader_pattern" -> loader_pattern(text, i)
      [] pat = "object_literal" -> object_literal(text, i)
      [] pat = "specific_obj" -> specific_obj(text, i)

\* Pattern.subn("", text): the matches, leftmost first and not overlapping,
\* are dropped; rest[i] is the result for the text from position i on. Every
\* match is non-empty, so the count subn returns is non-zero exactly when the
\* text has changed.
Subn(pat, text) ==
    LET rest[i \in 1..(Len(text) + 1)] ==
            IF i > Len(text) THEN <<>>
            ELSE LET e == PatternAt(pat, text, i)
                 IN IF e # 0 THEN rest[e] ELSE <<text[i]>> \o rest[i + 1]
    IN rest[1]

\* Line 546, script_tag.sub(strip_if_locker, html).
SubScripts(text) ==
    LET rest[i \in 1..(Len(text) + 1)] ==
            IF i > Len(text) THEN <<>>
            ELSE LET m == script_tag(text, i)
                 IN IF m.end # 0
                    THEN strip_if_locker(text, i, m) \o rest[m.end]
                    ELSE <<text[i]>> \o rest[i + 1]
    IN rest[1]

\* Lines 510-572: the four passes, each on the text the pass before it left.
\* A pass only removes, so changed, which every pass that removed something
\* sets, says whether the text returned differs from the text given.
remove_existing_lockers(text) ==
    LET results ==
            {[html |-> html4, changed |-> html4 # text] :
                html4 \in {Subn("specific_obj", html3) :
                html3 \in {Subn("object_literal", html2) :
                html2 \in {SubScripts(html1) :
                html1 \in {Subn("loader_pattern", text)}}}}}
    IN CHOOSE r \in results : TRUE

\* str.rstrip() and str.strip().
RECURSIVE RStrip(_)
RStrip(text) ==
    IF text # <<>> /\ text[Len(text)] = "WS"
    THEN RStrip(SubSeq(text, 1, Len(text) - 1))
    ELSE text

Strip(text) ==
    RStrip(Slice(text, SkipWs(text, 1), Len(text) + 1))

\* "snip in original".
Contains(text, snip) ==
    \E i \in 1..(Len(text) - Len(snip) + 1) :
        SubSeq(text, i, i + Len(snip) - 1) = snip

\* Lines 573-599: the text of the file after the call and the value returned.
inject_into_html_file(original, snippetText) ==
    LET snip == Strip(snippetText)
        already_present == Contains(original, snip)
        cleaned == remove_existing_lockers(original)
        sanitized == cleaned.html
        idx == Find(sanitized, "BC", 1)
        inserted == IF idx # 0
                    THEN Slice(sanitized, 1, idx) \o <<"WS">> \o snip \o <<"WS">>
                         \o Slice(sanitized, idx, Len(sanitized) + 1)
                    ELSE RStrip(sanitized) \o <<"WS">> \o snip \o <<"WS">>
        result == IF ~already_present THEN [html |-> inserted, changed |-> TRUE]
                  ELSE [html |-> sanitized, changed |-> cleaned.changed]
    IN [html |-> IF result.changed THEN result.html ELSE original,
        changed |-> result.changed]

\* The files the mutation starts from: the empty one and three examples; a
\* mirrored page grows from them token by token, up to MaxDocLen tokens.
SeedDocuments ==
    {<<>>,
     <<"SO", "LB", "QF", "RB", "SEMI", "SC">>,
     <<"T", "SO", "LB", "IT", "KEY", "RB", "SEMI", "SC", "BC">>,
     <<"T", "WS", "SL", "WS", "SC", "WS", "BC", "WS">>}

\* The snippets: a plain script, a locker payload, a loader tag, plain text
\* with whitespace around it, an object literal, a script with a loader
\* reference, the literal of specific_obj.
Snippets ==
    {<<"SO", "T", "SC">>, <<"SO", "IT", "KEY", "SC">>, <<"SL", "SC">>,
     <<"WS", "T", "WS">>, <<"LB", "IT", "KEY", "RB">>, <<"SO", "CF", "SC">>,
     <<"LB", "SPEC", "RB">>}

MutInit ==
    /\ SupInit
    /\ html \in SeedDocuments
    /\ snippet \in Snippets
    /\ changed = FALSE
    /\ ncalls = 0

\* The mirror writes one more token to the page, before the first mutation.
AppendToken ==
    /\ ncalls = 0
    /\ Len(html) < MaxDocLen
    /\ \E tok \in Tokens : html' = Append(html, tok)
    /\ UNCHANGED <<snippet, changed, ncalls, supVars>>

\* One call of _inject_into_html_file(html_path, snippet).
Mutate ==
    /\ ncalls < MaxCalls
    /\ ncalls' = ncalls + 1
    /\ \E result \in {inject_into_html_file(html, snippet)} :
           /\ html' = result.html
           /\ changed' = result.changed
    /\ UNCHANGED <<snippet, supVars>>

MutNext ==
    AppendToken \/ Mutate

MutSpec == MutInit /\ [][MutNext]_vars

----------------------------------------------------------------------------
\* The body of the reader's loop on lines of every kind.

\* The words of the lines: the words that decide a level in several cases, a
\* plain word, percentages, file counts, sizes, URLs, the word GET.
TestWords ==
    {<<"E", "R", "R", "O", "R">>,
     <<"F", "a", "i", "l", "e", "d">>,
     <<"c", "a", "n", "n", "o", "t">>,
     <<"W", "a", "r", "n", "i", "n", "g">>,
     <<"d", "e", "b", "u", "g">>,
     <<"o", "k">>,
     <<"4", "2", "%">>,
     <<"7", "%">>,
     <<"3", "/", "1", "0">>,
     <<"1", ".", "5", "M", "B">>,
     <<"2", " ", "k", "b">>,
     <<"h", "t", "t", "p", ":", "/", "/", "a">>,
     <<"G", "E", "T">>}

\* The lines: nothing, one word, or two words with a space between them.
TestLines ==
    {<<>>} \cup TestWords \cup {v \o <<" ">> \o w : v \in TestWords, w \in TestWords}

\* Job 1 has been started, its process runs and its reader is in the loop.
LineInit ==
    /\ MutIdle
    /\ proc = 1
    /\ njobs = 1
    /\ stop_requested = FALSE
    /\ percentage = 0
    /\ files_downloaded = 0
    /\ files_total = 0
    /\ bytes_downloaded = 0
    /\ current_url = <<>>
    /\ log_queue = <<LogEvent(1, "command", "[INFO]", 0, None)>>
    /\ progress_queue = <<>>
    /\ rpc = [j \in Jobs |-> IF j = 1 THEN "loop" ELSE "idle"]
    /\ rsrc = [j \in Jobs |-> IF j = 1 THEN 1 ELSE 0]
    /\ nread = [j \in Jobs |-> 0]
    /\ pstate = [j \in Jobs |-> IF j = 1 THEN "alive" ELSE "none"]
    /\ pout = [j \in Jobs |-> <<>>]
    /\ pcursor = [j \in Jobs |-> 0]
    /\ psig = [j \in Jobs |-> "none"]
    /\ pcode = [j \in Jobs |-> 0]
    /\ prc = [j \in Jobs |-> None]
    /\ cpc = "idle"
    /\ nterm = [j \in Jobs |-> 0]
    /\ outcome = [j \in Jobs |-> "none"]
    /\ stopLive = {}
    /\ nevents = 1
    /\ app = AppIdle

\* The process writes a line and the reader handles it.
FeedLine ==
    \E line \in TestLines :
        /\ rpc[1] = "loop"
        /\ nread[1] < MaxFed
        /\ HandleLine(1, line)
        /\ UNCHANGED <<proc, njobs, stop_requested, rpc, rsrc, procVars, prc, cpc,
                       histVars, nevents>>
        /\ UNCHANGED <<mutVars, app>>

LineNext == FeedLine

LineSpec == LineInit /\ [][LineNext]_vars

----------------------------------------------------------------------------
\* Vocabulary of the properties.

TerminalKinds == {"success", "stopped", "failed", "spawn_error"}

\* Reader threads that have been launched and have not ended.
ActiveReaders == {j \in Jobs : rpc[j] \notin {"idle", "done", "raised"}}

\* Processes spawned whose job has pushed no terminal LogEvent.
OpenProcesses == {p \in Jobs : pstate[p] # "none" /\ nterm[p] = 0}

StopPcs == {"stop_poll", "stop_terminate", "stop_wait", "stop_kill"}

\* A process that runs and has not been sent SIGKILL.
Unkilled(p) == pstate[p] = "alive" /\ psig[p] # "kill"

\* The k fields of job j's events of one kind in a queue, in queue order.
RECURSIVE LineIndexes(_, _)
LineIndexes(q, j) ==
    IF q = <<>> THEN <<>>
    ELSE IF Head(q).job = j /\ Head(q).k > 0
         THEN <<Head(q).k>> \o LineIndexes(Tail(q), j)
         ELSE LineIndexes(Tail(q), j)

\* ks is the run of consecutive numbers that ends at last.
ConsecutiveUpTo(ks, last) ==
    \A i \in 1..Len(ks) : ks[i] = last - Len(ks) + i

Increasing(ks) ==
    \A i \in 1..Len(ks) : \A k \in 1..Len(ks) : i < k => ks[i] < ks[k]

----------------------------------------------------------------------------
\* C1: start() is rejected whenever a Job is active: a start() issued before
\* the terminal LogEvent of every earlier Job has been pushed launches no
\* reader thread.
C1_StartRejectedWhileActive ==
    [][njobs' = njobs + 1 => \A j \in 1..njobs : nterm[j] >= 1]_vars

\* C2: at most one Job is active: never more than one live reader thread and
\* never more than one spawned process whose terminal LogEvent is missing.
C2_AtMostOneActiveJob ==
    /\ Cardinality(ActiveReaders) <= 1
    /\ Cardinality(OpenProcesses) <= 1

\* C3: every Job pushes exactly one terminal LogEvent, never zero when its
\* reader thread has ended, never two, and no LogEvent of the Job follows it.
C3_ExactlyOneTerminalEvent ==
    \A j \in Jobs :
        /\ nterm[j] <= 1
        /\ rpc[j] \in {"done", "raised"} => nterm[j] = 1
        /\ \A i \in 1..Len(log_queue) : \A k \in 1..Len(log_queue) :
               (i < k /\ log_queue[i].job = j /\ log_queue[k].job = j)
                   => log_queue[i].kind \notin TerminalKinds

\* C4: a Job whose process stop() terminated is reported by the "stopped"
\* terminal LogEvent, never by the failure event.
C4_StopIsNotAFailure ==
    \A j \in Jobs :
        (nterm[j] >= 1 /\ pstate[j] = "exited" /\ psig[j] = "term")
            => outcome[j] = "stopped"

\* C5: when stop() returns, every process that ran when it was called has
\* exited or has been sent SIGKILL.
C5_StopEndsTheProcess ==
    [][/\ (StopCall /\ cpc' = "idle") => \A p \in Jobs : ~Unkilled(p)
       /\ (cpc \in StopPcs /\ cpc' = "idle") => \A p \in stopLive : ~Unkilled(p)']_vars

\* C6: the handle of a Job is cleared only after that Job's terminal LogEvent
\* has been pushed.
C6_HandleClearedAfterTerminal ==
    [][(proc # 0 /\ proc' = 0) => nterm[proc] >= 1]_vars

\* C7: the log stream holds, for every Job, the LogEvents of the last lines its
\* reader read, one per line, in reading order, and the progress stream the
\* snapshots of some of these lines in reading order; a poll takes the oldest
\* event, and on an empty stream it returns none and changes nothing.
LogInOrder ==
    \A j \in Jobs : ConsecutiveUpTo(LineIndexes(log_queue, j), nread[j])

ProgressInOrder ==
    \A j \in Jobs :
        /\ Increasing(LineIndexes(progress_queue, j))
        /\ \A i \in 1..Len(progress_queue) : progress_queue[i].job = j
               => progress_queue[i].k <= nread[j]

PollsTakeTheOldest ==
    /\ PollLogLine =>
           IF log_queue = <<>>
           THEN PollLogLineValue = None /\ UNCHANGED queueVars
           ELSE log_queue = PollLogLineValue \o log_queue' /\ UNCHANGED progress_queue
    /\ PollProgress =>
           IF progress_queue = <<>>
           THEN PollProgressValue = None /\ UNCHANGED queueVars
           ELSE progress_queue = PollProgressValue \o progress_queue'
                /\ UNCHANGED log_queue

StopStep ==
    StopCall \/ StopPoll \/ StopTerminate \/ StopWait \/ StopKill

C8_StopIsIdempotent ==
    [][/\ (StopCall /\ ActiveReaders = {}) =>
              /\ cpc' = "idle"
              /\ UNCHANGED <<proc, psig, prc, queueVars, pstate, parserVars>>
       /\ StartBody => ~stop_requested'
       /\ (cpc \in {"stop_wait", "stop_kill"} /\ cpc' = "idle" /\ proc' # 0)
              => ~(pstate'[proc'] = "alive" /\ psig'[proc'] # "kill")
       /\ (StopStep /\ stop_requested /\ \A p \in Jobs : ~Unkilled(p))
              => UNCHANGED <<stop_requested, psig, queueVars>>]_vars

\* stop() was called with no Job active: the flag is set, nothing else moved.
C8_Witness ==
    /\ njobs = 0
    /\ stop_requested
    /\ cpc = "idle"
    /\ log_queue = <<>>

\* C9: the caller thread is never at a wait for the child process.
C9_NoOperationWaits ==
    cpc # "stop_wait"

\* C10: for a fixed snippet the mutator is idempotent: a call on a file that
\* has been mutated before returns changed = false and leaves the text as it
\* was.
C10_MutateIsIdempotent ==
    [][(Mutate /\ ncalls >= 1) => (~changed' /\ html' = html)]_vars

\* The positions of text at which snip occurs.
Occurrences(text, snip) ==
    {i \in 1..(Len(text) - Len(snip) + 1) : SubSeq(text, i, i + Len(snip) - 1) = snip}

\* One of the patterns _remove_existing_lockers removes matches somewhere in
\* text: a loader tag, a script element strip_if_locker drops, an object
\* literal with both fields, the literal of specific_obj.
HasLockerPattern(text) ==
    \E i \in 1..Len(text) :
        \/ loader_pattern(text, i) # 0
        \/ /\ script_tag(text, i).end # 0
           /\ strip_if_locker(text, i, script_tag(text, i)) = <<>>
        \/ object_literal(text, i) # 0
        \/ specific_obj(text, i) # 0

\* C11: after any number of mutations with the same snippet the file holds
\* the trimmed snippet at most once and no pattern that
\* _remove_existing_lockers removes.
C11_CleanAfterMutation ==
    ncalls >= 1 =>
        /\ Cardinality(Occurrences(html, Strip(snippet))) <= 1
        /\ ~HasLockerPattern(html)

\* text holds a script element whose content holds the object literal
\* {"it":123,"key":"abc"}.
HasQuotedLocker(text) ==
    \E i \in 1..Len(text) :
        LET m == script_tag(text, i)
        IN /\ m.end # 0
           /\ Contains(Slice(text, m.open + 1, m.close), <<"LB", "QF", "RB">>)

\* C12: the mutation of a file that holds a script element with the object
\* literal {"it":123,"key":"abc"} returns changed = true and leaves no
\* "it":123 and no "key":"abc" in the file, whatever the snippet.
C12_QuotedLockerRemoved ==
    [][(Mutate /\ HasQuotedLocker(html)) => (changed' /\ ~HasToken(html', "QF"))]_vars

\* result is text with a newline, snip and a newline put in front of the first
\* </body> of text or, when text has none, put in place of the whitespace that
\* ends text.
PlacedIn(text, snip, result) ==
    LET block == <<"WS">> \o snip \o <<"WS">>
    IN IF HasToken(text, "BC")
       THEN \E p \in 1..Len(text) :
                /\ text[p] = "BC"
                /\ \A q \in 1..(p - 1) : text[q] # "BC"
                /\ result = SubSeq(text, 1, p - 1) \o block \o SubSeq(text, p, Len(text))
       ELSE \E n \in 0..Len(text) :
                /\ n = 0 \/ text[n] # "WS"
                /\ \A q \in (n + 1)..Len(text) : text[q] = "WS"
                /\ result = SubSeq(text, 1, n) \o block

\* C13: a mutation whose trimmed snippet does not occur in the cleaned text
\* returns changed = true and writes the cleaned text with the snippet placed
\* before its first </body> or, without one, at its end after the trailing
\* whitespace.
C13_InsertionPlacement ==
    [][\A cleaned \in {remove_existing_lockers(html).html} :
           (Mutate /\ ~Contains(cleaned, Strip(snippet)))
               => (changed' /\ PlacedIn(cleaned, Strip(snippet), html'))]_vars

\* The same for a mutation whose trimmed snippet occurs neither in the text
\* read nor in the cleaned text.
InsertionPlacementWhenAbsent ==
    [][\A cleaned \in {remove_existing_lockers(html).html} :
           (Mutate /\ ~Contains(html, Strip(snippet))
                   /\ ~Contains(cleaned, Strip(snippet)))
               => (changed' /\ PlacedIn(cleaned, Strip(snippet), html'))]_vars

\* Job j's Popen() raised.
SpawnFailed(j) == outcome[j] = "spawn_error"

\* The events of job j in the queue q.
JobEvents(q, j) == SelectSeq(q, LAMBDA e : e.job = j)

\* The states of a job whose spawn failed: no process, no line read, one
\* terminal event, the reader past its except clause, a handle that is not
\* the job's and that is clear when the reader has ended and no other reader
\* runs.
SpawnFailedState ==
    \A j \in Jobs :
        SpawnFailed(j) =>
            /\ pstate[j] = "none"
            /\ proc # j
            /\ nread[j] = 0
            /\ nterm[j] = 1
            /\ rpc[j] \in {"spawn_failed", "done"}
            /\ (rpc[j] = "done" /\ ActiveReaders = {}) => proc = 0

\* The steps of a job whose spawn fails: the failure appends one ERROR event,
\* the job's first, to the log stream; no later step adds an event of the job
\* to either stream; the return clears the handle.
SpawnFailedSteps ==
    \A j \in Jobs :
        /\ (~SpawnFailed(j) /\ SpawnFailed(j)') =>
               /\ JobEvents(log_queue, j) = <<>>
               /\ JobEvents(progress_queue, j) = <<>>
               /\ Len(log_queue') = Len(log_queue) + 1
               /\ SubSeq(log_queue', 1, Len(log_queue)) = log_queue
               /\ log_queue'[Len(log_queue')].job = j
               /\ log_queue'[Len(log_queue')].level = "[ERROR]"
               /\ progress_queue' = progress_queue
        /\ SpawnFailed(j) =>
               /\ Len(JobEvents(log_queue', j)) <= Len(JobEvents(log_queue, j))
               /\ Len(JobEvents(progress_queue', j)) <= Len(JobEvents(progress_queue, j))
        /\ (rpc[j] = "spawn_failed" /\ rpc'[j] = "done") => proc' = 0

\* A start() called when a job's spawn has failed and no reader runs passes
\* the is_running() test.
StartAfterSpawnFailure ==
    (/\ cpc = "idle"
     /\ cpc' \in {"start_body", "start_poll"}
     /\ ActiveReaders = {}
     /\ \E j \in Jobs : SpawnFailed(j))
        => cpc' = "start_body"

\* C14: a job whose spawn fails pushes exactly one LogEvent, at ERROR level,
\* and nothing after it; no process of the job exists, no line is read, the
\* handle is cleared and never refers to the job, and the next start() is
\* accepted.
C14_SpawnFailure ==
    /\ []SpawnFailedState
    /\ [][SpawnFailedSteps /\ StartAfterSpawnFailure]_vars

\* A second job has been launched after the first job's spawn failed and its
\* reader ended.
C14_Witness ==
    /\ njobs = 2
    /\ SpawnFailed(1)
    /\ rpc[1] = "done"
    /\ rpc[2] # "idle"
    /\ \E i \in 1..Len(log_queue) :
           log_queue[i].job = 1 /\ log_queue[i].kind = "spawn_error"

\* C15: log file errors are not fatal: a reader that holds a process and is
\* at the opening of its log file always goes on to read the output, and
\* pushes no event on the way.
C15_LogErrorsAreNotFatal ==
    [][\A j \in Jobs :
           (rpc[j] = "open" /\ rpc'[j] # "open" /\ proc # 0)
               => (rpc'[j] = "loop" /\ log_queue' = log_queue)]_vars

Levels == {"[DEBUG]", "[INFO]", "[WARN]", "[ERROR]"}

\* key occurs in line when the case of the letters is ignored.
Mentions(line, key) ==
    \E i \in 1..Len(line) :
        \A k \in 1..Len(key) :
            /\ i + k - 1 <= Len(line)
            /\ LowerChar(line[i + k - 1]) = key[k]

MentionsFailure(line) ==
    \/ Mentions(line, <<"e", "r", "r", "o", "r">>)
    \/ Mentions(line, <<"f", "a", "i", "l", "e", "d">>)
    \/ Mentions(line, <<"c", "a", "n", "n", "o", "t">>)

\* The line events of the log stream.
LineEvents == {log_queue[i] : i \in {i \in 1..Len(log_queue) : log_queue[i].kind = "line"}}

\* C16: every event of the log stream carries one of the four levels, and the
\* level of a line is ERROR when the line mentions error, failed or cannot,
\* otherwise WARN when it mentions warn, otherwise DEBUG when it mentions
\* debug, otherwise INFO, whatever the case of the letters.
C16_ClassificationByPriority ==
    /\ \A i \in 1..Len(log_queue) : log_queue[i].level \in Levels
    /\ \A e \in LineEvents :
           /\ MentionsFailure(e.msg) => e.level = "[ERROR]"
           /\ (~MentionsFailure(e.msg) /\ Mentions(e.msg, <<"w", "a", "r", "n">>))
                  => e.level = "[WARN]"
           /\ (/\ ~MentionsFailure(e.msg)
               /\ ~Mentions(e.msg, <<"w", "a", "r", "n">>)
               /\ Mentions(e.msg, <<"d", "e", "b", "u", "g">>))
                  => e.level = "[DEBUG]"
           /\ (/\ ~MentionsFailure(e.msg)
               /\ ~Mentions(e.msg, <<"w", "a", "r", "n">>)
               /\ ~Mentions(e.msg, <<"d", "e", "b", "u", "g">>))
                  => e.level = "[INFO]"

\* The stream holds an ERROR line that also mentions warn, in capitals, and a
\* WARN line that also mentions debug.
C16_Witness ==
    /\ \E e \in LineEvents :
           /\ Has(e.msg, <<"E", "R", "R", "O", "R">>)
           /\ Mentions(e.msg, <<"w", "a", "r", "n">>)
           /\ e.level = "[ERROR]"
    /\ \E e \in LineEvents :
           /\ ~MentionsFailure(e.msg)
           /\ Mentions(e.msg, <<"w", "a", "r", "n">>)
           /\ Mentions(e.msg, <<"d", "e", "b", "u", "g">>)
           /\ e.level = "[WARN]"

\* C17: the parser is reset once per job, by the start() that launches it and
\* before any of its lines is handled; no reset happens while an earlier job
\* lacks its terminal event, and a line changes the parser only when it is a
\* line of the job started last.
C17_ParserBelongsToOneJob ==
    [][/\ njobs' = njobs + 1 =>
              /\ parserVars' = <<0, 0, 0, 0, <<>>>>
              /\ nread[njobs + 1] = 0
              /\ \A j \in 1..njobs : nterm[j] >= 1
       /\ \A j \in Jobs :
              (nread'[j] # nread[j] /\ parserVars' # parserVars) => j = njobs]_vars

\* The line holds a digit followed by a percent sign.
HasPercent(line) ==
    \E i \in 1..(Len(line) - 1) : IsDigit(line[i]) /\ line[i + 1] = "%"

\* The line holds a digit, a slash and a digit.
HasCounts(line) ==
    \E i \in 1..(Len(line) - 2) :
        IsDigit(line[i]) /\ line[i + 1] = "/" /\ IsDigit(line[i + 2])

\* The line holds a digit and, after spaces or none, KB, MB or GB in either
\* case.
HasSize(line) ==
    \E i \in 1..Len(line) : \E u \in (i + 1)..(Len(line) - 1) :
        /\ IsDigit(line[i])
        /\ \A k \in (i + 1)..(u - 1) : line[k] = " "
        /\ LowerChar(line[u]) \in {"k", "m", "g"}
        /\ LowerChar(line[u + 1]) = "b"

\* The line holds http:// or https:// followed by a character that is not a
\* space.
HasUrl(line) ==
    \E i \in 1..Len(line) :
        \/ /\ StartsAt(line, i, <<"h", "t", "t", "p", ":", "/", "/">>)
           /\ i + 7 <= Len(line)
           /\ line[i + 7] # " "
        \/ /\ StartsAt(line, i, <<"h", "t", "t", "p", "s", ":", "/", "/">>)
           /\ i + 8 <= Len(line)
           /\ line[i + 8] # " "

\* The fields a line gives.
Derived(line) ==
    (IF HasPercent(line) THEN {"percentage"} ELSE {})
        \cup (IF HasCounts(line) THEN {"files"} ELSE {})
        \cup (IF HasSize(line) THEN {"bytes"} ELSE {})
        \cup (IF HasUrl(line) /\ Has(line, <<"G", "E", "T">>) THEN {"current_url"} ELSE {})

\* A step that handles the given line of job j: the fields of the parser the
\* line does not give keep their values; a snapshot is appended when the line
\* gives a field and only then, it holds the fields given and no other, and
\* the parser holds their values.
HandledAsDerived(j, line) ==
    /\ "percentage" \notin Derived(line) => percentage' = percentage
    /\ "files" \notin Derived(line) =>
           (files_downloaded' = files_downloaded /\ files_total' = files_total)
    /\ "current_url" \notin Derived(line) => current_url' = current_url
    /\ bytes_downloaded' = bytes_downloaded
    /\ Derived(line) = {} <=> progress_queue' = progress_queue
    /\ Derived(line) # {} =>
           /\ Len(progress_queue') = Len(progress_queue) + 1
           /\ SubSeq(progress_queue', 1, Len(progress_queue)) = progress_queue
           /\ \E e \in {progress_queue'[Len(progress_queue')]} :
                  /\ e.job = j
                  /\ DOMAIN e.info = Derived(line)
                  /\ "percentage" \in Derived(line) => percentage' = e.info["percentage"]
                  /\ "files" \in Derived(line) =>
                         <<files_downloaded', files_total'>> = e.info["files"]
                  /\ "current_url" \in Derived(line) => current_url' = e.info["current_url"]

\* C18: a line changes only the fields of the parser it gives; a snapshot is
\* pushed for a line if and only if the line gives a field, and holds exactly
\* the fields given; the current URL is given only by a line with a URL and
\* the word GET.
C18_PartialUpdates ==
    [][\A j \in Jobs :
           nread'[j] = nread[j] + 1
               => HandledAsDerived(j, log_queue'[Len(log_queue')].msg)]_vars

\* Two lines have been handled: the first gave the percentage only, the
\* second the file counts only, and the percentage of the first is still held.
C18_Witness ==
    /\ nread[1] = 2
    /\ Len(progress_queue) = 2
    /\ DOMAIN progress_queue[1].info = {"percentage"}
    /\ DOMAIN progress_queue[2].info = {"files"}
    /\ percentage = 42
    /\ files_downloaded = 3
    /\ files_total = 10

\* Positions of a reader after its loop.
AfterLoopPcs == {"finally", "finally_poll", "wait", "kill", "rc", "rc_read", "clear", "done"}

\* A line taken from a pipe, without a read error, while the flag is set is
\* dropped: nothing is pushed and no reader counts a line.
LineDroppedWhenFlagSet ==
    (stop_requested /\ pcursor' # pcursor /\ nevents' = nevents)
        => (log_queue' = log_queue /\ progress_queue' = progress_queue /\ nread' = nread)

\* A reader that has left its loop handles no line, pushes no snapshot, and
\* the only event it pushes is terminal.
NothingAfterTheLoop ==
    \A j \in Jobs :
        rpc[j] \in AfterLoopPcs =>
            /\ nread'[j] = nread[j]
            /\ Len(JobEvents(progress_queue', j)) <= Len(JobEvents(progress_queue, j))
            /\ Len(JobEvents(log_queue', j)) > Len(JobEvents(log_queue, j))
                   => log_queue'[Len(log_queue')].kind \in TerminalKinds

\* A stream loses an event only at its head; nothing else is removed.
OnlyTheHeadLeaves(q, r) ==
    \/ r = q
    \/ q # <<>> /\ r = Tail(q)
    \/ Len(r) > Len(q) /\ SubSeq(r, 1, Len(q)) = q

\* C19: a line read while the cancellation flag is set is not pushed and ends
\* the loop; after its loop a reader pushes no line event and no snapshot, only
\* its terminal event; no step discards an event of either stream, events
\* leave a stream only from its head.
C19_NoLinesAfterCancellation ==
    [][/\ LineDroppedWhenFlagSet
       /\ NothingAfterTheLoop
       /\ OnlyTheHeadLeaves(log_queue, log_queue')
       /\ OnlyTheHeadLeaves(progress_queue, progress_queue')]_vars

\* Job 1's reader pushed its first line, stop() set the flag, and the reader
\* took the second line from the pipe and left the loop; the events pushed
\* before are still in the streams.
C19_Witness ==
    /\ stop_requested
    /\ rpc[1] = "finally"
    /\ pcursor[1] = 2
    /\ nread[1] = 1
    /\ Len(log_queue) = 2
    /\ log_queue[2].kind = "line"
    /\ Len(progress_queue) = 1

\* C20: the presence of the snippet is decided on the cleaned text: when the
\* trimmed snippet occurs in it, the mutation writes the cleaned text and
\* returns whether the cleanup removed anything; when it does not, the
\* mutation inserts the snippet and returns true.
C20_PresenceDecidedAfterCleanup ==
    [][Mutate =>
           \A r \in {remove_existing_lockers(html)} :
               IF Contains(r.html, Strip(snippet))
               THEN html' = r.html /\ changed' = r.changed
               ELSE changed' /\ PlacedIn(r.html, Strip(snippet), html')]_vars

\* Job j's reader iterated a pipe and its "Log streaming error" event is in
\* the log stream: the read of a line failed.
ReadFailed(j) ==
    /\ rsrc[j] # 0
    /\ \E i \in 1..Len(log_queue) :
           log_queue[i].job = j /\ log_queue[i].kind = "stream_error"

\* C21: a job whose read of the output failed has pushed one ERROR event for
\* it, goes through the finally block without raising, and ends with exactly
\* one terminal event and a clear handle.
C21_ReadFailureEndsNormally ==
    \A j \in Jobs :
        ReadFailed(j) =>
            /\ rpc[j] \in AfterLoopPcs
            /\ Len(SelectSeq(JobEvents(log_queue, j),
                             LAMBDA e : e.kind = "stream_error")) = 1
            /\ \A i \in 1..Len(log_queue) :
                   log_queue[i].kind = "stream_error" => log_queue[i].level = "[ERROR]"
            /\ nterm[j] <= 1
            /\ rpc[j] = "done" => (nterm[j] = 1 /\ (ActiveReaders = {} => proc = 0))

\* The handle refers to every process that runs and has not been killed.
HandleOnLiveProcess ==
    \A p \in Jobs : Unkilled(p) => proc = p

\* The exit code a job's terminal event reports is the code of the job's own
\* process.
OwnExitCode ==
    \A j \in Jobs :
        /\ outcome[j] = "success" => (pstate[j] = "exited" /\ pcode[j] = 0)
        /\ outcome[j] = "failed" => (pstate[j] = "exited" /\ pcode[j] # 0)

\* A reader that ends clears no handle but that of its own job.
ClearsOwnHandle ==
    \A j \in Jobs :
        (rpc[j] # "done" /\ rpc'[j] = "done") => proc \in {0, j}

\* C22: the handle refers to a job's process as long as the process runs; a
\* reader that ends, after its finally block or after a failed spawn, clears
\* only the handle of its own job; the terminal event of a job reports the
\* exit code of the job's own process.
C22_ReaderOwnsItsHandle ==
    /\ [](HandleOnLiveProcess /\ OwnExitCode)
    /\ [][ClearsOwnHandle]_vars

\* C23: a stop() made after the start() of a job is not lost: when the flag is
\* set and the job's reader has been launched, the job pushes its terminal
\* event, as long as no further job is started.
C23_StopIsNeverLost ==
    (stop_requested /\ njobs = 1) ~> (nterm[1] >= 1 \/ njobs > 1)

\* Positions of the caller between the two reads of self.proc in is_running().
SecondReadPcs == {"is_running_poll", "start_poll", "stop_poll"}

\* Positions of the caller at a use of self.proc inside the try of stop().
StopUsePcs == {"stop_terminate", "stop_wait", "stop_kill"}

\* C24: is_running() and stop() never fail: the second read of self.proc in
\* is_running(), on its own or within stop() or start(), and the uses of
\* self.proc in stop() never find the handle cleared.
C24_HandleReadsNeverFail ==
    [][(cpc \in SecondReadPcs \cup StopUsePcs /\ cpc' # cpc) => proc # 0]_vars

\* C25: after a mutation with a snippet that is not blank, the file holds the
\* trimmed snippet.
C25_SnippetPresentAfterMutation ==
    (ncalls >= 1 /\ Strip(snippet) # <<>>) => Contains(html, Strip(snippet))


\* The state _finish is to be given for a terminal event of this kind.
StateOf(kind) ==
    IF kind = "success" THEN "success"
    ELSE IF kind = "stopped" THEN "stopped"
    ELSE "error"

\* The terminal events of job j in the log widget.
Consumed(log_txt, j) ==
    SelectSeq(JobEvents(log_txt, j), LAMBDA e : e.kind \in TerminalKinds)

\* A call of _finish in this step: after it, the latest job is j, its terminal
\* event is in the widget and states the outcome given to _finish, _finish
\* was not called for j before, and the reader of j is past its loop.
FinishInOrder ==
    Len(app'.finished) > Len(app.finished) =>
        LET f == app'.finished[Len(app'.finished)]
            j == f.job
        IN /\ j \in Jobs
           /\ Consumed(app'.log_txt, j) # <<>>
           /\ f.run_state = StateOf(Consumed(app'.log_txt, j)[1].kind)
           /\ \A k \in 1..Len(app.finished) : app.finished[k].job # j
           /\ rpc[j] \in AfterLoopPcs

\* C26: _finish runs at most once per job, only after the terminal LogEvent of
\* the job has been consumed from the log queue, with the outcome that event
\* states, and never while the reader of the job still has lines to deliver.
C26_FinishOncePerJob == [][FinishInOrder]_vars

====
